---- MODULE Spec2Model ----
(***************************************************************************)
(* Model of core/view/finisher.go (package view): the Finisher type, its   *)
(* constructor and outcome mutators, Call with its callback loop, panic    *)
(* guard and two-stage transaction finishing, and the two error accessors. *)
(*                                                                         *)
(* A Finisher is a record.  Pointers and errors are strings, Nil is the    *)
(* nil pointer / nil error / nil interface.  A callback is an opaque       *)
(* pointer; what it does when called (return, or panic with a payload) and *)
(* what a completor returns are inputs of Call.  One Call is one action;   *)
(* the history variable hist keeps the engine as it was before the last    *)
(* operation and the sequence of calls that operation made, in order, and  *)
(* ctorFlags keeps the flags the engine was made with.                     *)
(***************************************************************************)
EXTENDS Naturals, Sequences, FiniteSets

VARIABLES f, completors, hist, nCalls, ctorFlags, eng, sched

vars == <<f, completors, hist, nCalls, ctorFlags, eng, sched>>

\* the variables of the specification of two engines called concurrently
\* (SpecPar), which the specification of one engine (Spec) leaves alone
parVars == <<eng, sched>>

----------------------------------------------------------------------------
(* Bounds of the model. *)

\* longest callback list
MaxCbs == 2
\* number of Call operations explored in one behaviour
MaxCalls == 2

----------------------------------------------------------------------------
(* Values. *)

Nil == "nil"

\* callback pointers, and the callback lists tried: the first k of them
CbPtrs == <<"cb1", "cb2", "cb3", "cb4">>
CbLists == {SubSeq(CbPtrs, 1, k) : k \in 0..MaxCbs}
\* context pointers: the original *Ctx, and the extended context the callbacks
\* get (no operation looks into or compares them)
OrigCtxs == {"ctx"}
PassCtxs == {"extCtx"}
\* sent message objects, sending errors, completor errors, panic payloads
Msgs == {"msg"}
SendErrs == {"sendErr"}
SessionErrs == {"E1"}
ChatErrs == {"E2"}
TrErrs == SessionErrs \cup ChatErrs
Payloads == {"boom"}
\* a completor function value
Fn == "func"

\* finisherFlag constants
CEnablePanicGuard == "CEnablePanicGuard"
CFinishSessionTransaction == "CFinishSessionTransaction"
CFinishChatTransaction == "CFinishChatTransaction"
CIsSessionTransactionError == "CIsSessionTransactionError"
CIsChatTransactionError == "CIsChatTransactionError"

AllFlags == {CEnablePanicGuard, CFinishSessionTransaction, CFinishChatTransaction,
             CIsSessionTransactionError, CIsChatTransactionError}

\* finisherFlag.TestFlag / finisherFlag.SetFlag: a flag word is a set of flags
TestFlag(flags, c) == c \in flags
SetFlag(flags, c) == flags \cup {c}

\* what one callback does when it is called: it returns, or it panics with a
\* value.  The value is nil after panic(nil) on a runtime that keeps a nil
\* panic value (Go before 1.21, or GODEBUG=panicnil=1); a runtime that replaces
\* it panics with a non-nil *runtime.PanicNilError, one of the Payloads.
Returns == [panics |-> FALSE, payload |-> Nil]
Behaviours == {Returns} \cup {[panics |-> TRUE, payload |-> p] : p \in Payloads \cup {Nil}}

----------------------------------------------------------------------------
(* The Finisher type. *)

Finisher == [Flags : SUBSET AllFlags,
             originalCtx : OrigCtxs,
             passCallbacksCtx : PassCtxs,
             sentMsg : Msgs \cup {Nil},
             sentErr : SendErrs \cup {Nil},
             callbacks : CbLists,
             RecoveredPanics : Seq(Payloads),
             Err : TrErrs \cup {Nil}]

TypeOK == /\ f \in Finisher
          /\ completors \in [session : {Nil, Fn}, chat : {Nil, Fn}]
          /\ nCalls \in 0..MaxCalls
          /\ ctorFlags \in SUBSET AllFlags

----------------------------------------------------------------------------
(* Events: the calls a Finisher operation makes, in the order it makes     *)
(* them.  kind "cb" is a call of a callback (idx is its position in the    *)
(* list, msg / err the second argument of the shape that was called),      *)
(* kinds "session" and "chat" are calls of the two completors (err is the  *)
(* error returned).                                                        *)

CbEvent(idx, cb, ctx, msg, err, b) ==
    [kind |-> "cb", idx |-> idx, cb |-> cb, ctx |-> ctx, msg |-> msg, err |-> err,
     panics |-> b.panics, payload |-> b.payload]

TrEvent(kind, ctx, err) ==
    [kind |-> kind, idx |-> 0, cb |-> Nil, ctx |-> ctx, msg |-> Nil, err |-> err,
     panics |-> FALSE, payload |-> Nil]

\* the result of running a piece of code on engine g: the engine afterwards,
\* the calls made, and whether a panic left the code (with which value)
Done(g, log) == [f |-> g, log |-> log, escaped |-> FALSE, fault |-> Nil]
Panicked(g, log, v) == [f |-> g, log |-> log, escaped |-> TRUE, fault |-> v]

\* calling a nil func value
NilFuncFault == "nil func call"

----------------------------------------------------------------------------
(* The operations of finisher.go. *)

\* func (f *Finisher) TrSessionError() error
TrSessionError(g) ==
    IF TestFlag(g.Flags, CIsSessionTransactionError) /\ g.Err # Nil THEN g.Err ELSE Nil

\* func (f *Finisher) TrChatError() error
TrChatError(g) ==
    IF TestFlag(g.Flags, CIsChatTransactionError) /\ g.Err # Nil THEN g.Err ELSE Nil

\* func (f *Finisher) protectFromPanic(): recoverInfo is what recover() returns,
\* nil when the goroutine is not panicking
protectFromPanic(g, recoverInfo) ==
    IF recoverInfo # Nil
    THEN [g EXCEPT !.RecoveredPanics = Append(@, recoverInfo)]
    ELSE g

\* invoke with the arguments of the two callback shapes exchanged
invoke_wrongArg(g, idx, cb, b) ==
    LET guarded == TestFlag(g.Flags, CEnablePanicGuard)
        log == IF g.sentMsg # Nil
               THEN <<CbEvent(idx, cb, g.passCallbacksCtx, Nil, g.sentErr, b)>>
               ELSE IF g.sentErr # Nil
               THEN <<CbEvent(idx, cb, g.passCallbacksCtx, g.sentMsg, Nil, b)>>
               ELSE <<>>
        panicking == log # <<>> /\ b.panics
    IN  IF guarded
        THEN Done(protectFromPanic(g, IF panicking THEN b.payload ELSE Nil), log)
        ELSE IF panicking THEN Panicked(g, log, b.payload) ELSE Done(g, log)

\* invoke calling the error shape also when neither sentMsg nor sentErr is set
invoke_callsAnyway(g, idx, cb, b) ==
    LET guarded == TestFlag(g.Flags, CEnablePanicGuard)
        log == IF g.sentMsg # Nil
               THEN <<CbEvent(idx, cb, g.passCallbacksCtx, g.sentMsg, Nil, b)>>
               ELSE <<CbEvent(idx, cb, g.passCallbacksCtx, Nil, g.sentErr, b)>>
        panicking == log # <<>> /\ b.panics
    IN  IF guarded
        THEN Done(protectFromPanic(g, IF panicking THEN b.payload ELSE Nil), log)
        ELSE IF panicking THEN Panicked(g, log, b.payload) ELSE Done(g, log)

\* func (f *Finisher) invoke(cb unsafe.Pointer); b is what cb does when called
invoke(g, idx, cb, b) ==
    LET guarded == TestFlag(g.Flags, CEnablePanicGuard)
        log == IF g.sentMsg # Nil
               THEN <<CbEvent(idx, cb, g.passCallbacksCtx, g.sentMsg, Nil, b)>>
               ELSE IF g.sentErr # Nil
               THEN <<CbEvent(idx, cb, g.passCallbacksCtx, Nil, g.sentErr, b)>>
               ELSE <<>>
        panicking == log # <<>> /\ b.panics
    IN  IF guarded
        THEN Done(protectFromPanic(g, IF panicking THEN b.payload ELSE Nil), log)
        ELSE IF panicking THEN Panicked(g, log, b.payload) ELSE Done(g, log)

\* the loop of Call walking the list from its end
RECURSIVE RangeCallbacks_reversed(_, _, _, _)
RangeCallbacks_reversed(g, cbs, i, behs) ==
    IF i > Len(cbs)
    THEN Done(g, <<>>)
    ELSE LET k == Len(cbs) - i + 1
             r == invoke(g, k, cbs[k], behs[k])
         IN  IF r.escaped
             THEN r
             ELSE LET rest == RangeCallbacks_reversed(r.f, cbs, i + 1, behs)
                  IN  [rest EXCEPT !.log = r.log \o @]

\* the loop of Call: for _, cb := range f.callbacks { f.invoke(cb) }, from
\* position i on; behs[i] is what the callback at position i does
RECURSIVE RangeCallbacks(_, _, _, _)
RangeCallbacks(g, cbs, i, behs) ==
    IF i > Len(cbs)
    THEN Done(g, <<>>)
    ELSE LET next(r) ==
                 IF r.escaped
                 THEN r
                 ELSE [RangeCallbacks(r.f, cbs, i + 1, behs) EXCEPT !.log = r.log \o @]
         IN  next(invoke(g, i, cbs[i], behs[i]))

\* trFinish without the return after a failed session completor
trFinish_noReturn(g, comp, errS, errC) ==
    LET chat(h, log) ==
            IF TestFlag(h.Flags, CFinishChatTransaction)
            THEN IF comp.chat = Nil
                 THEN Panicked(h, log, NilFuncFault)
                 ELSE LET log2 == Append(log, TrEvent("chat", h.originalCtx, errC))
                      IN  IF errC # Nil
                          THEN Done([h EXCEPT !.Err = errC,
                                              !.Flags = SetFlag(@, CIsChatTransactionError)],
                                    log2)
                          ELSE Done(h, log2)
            ELSE Done(h, log)
    IN  IF TestFlag(g.Flags, CFinishSessionTransaction)
        THEN IF comp.session = Nil
             THEN Panicked(g, <<>>, NilFuncFault)
             ELSE LET log1 == <<TrEvent("session", g.originalCtx, errS)>>
                  IN  IF errS # Nil
                      THEN chat([g EXCEPT !.Err = errS,
                                          !.Flags = SetFlag(@, CIsSessionTransactionError)],
                                log1)
                      ELSE chat(g, log1)
        ELSE chat(g, <<>>)

\* trFinish recording a failed chat completor under the session flag
trFinish_wrongFlag(g, comp, errS, errC) ==
    LET chat(h, log) ==
            IF TestFlag(h.Flags, CFinishChatTransaction)
            THEN IF comp.chat = Nil
                 THEN Panicked(h, log, NilFuncFault)
                 ELSE LET log2 == Append(log, TrEvent("chat", h.originalCtx, errC))
                      IN  IF errC # Nil
                          THEN Done([h EXCEPT !.Err = errC,
                                              !.Flags = SetFlag(@, CIsSessionTransactionError)],
                                    log2)
                          ELSE Done(h, log2)
            ELSE Done(h, log)
    IN  IF TestFlag(g.Flags, CFinishSessionTransaction)
        THEN IF comp.session = Nil
             THEN Panicked(g, <<>>, NilFuncFault)
             ELSE LET log1 == <<TrEvent("session", g.originalCtx, errS)>>
                  IN  IF errS # Nil
                      THEN Done([g EXCEPT !.Err = errS,
                                          !.Flags = SetFlag(@, CIsSessionTransactionError)],
                                log1)
                      ELSE chat(g, log1)
        ELSE chat(g, <<>>)

\* trFinish handing the completors the context of the callbacks
trFinish_passCtx(g, comp, errS, errC) ==
    LET chat(h, log) ==
            IF TestFlag(h.Flags, CFinishChatTransaction)
            THEN IF comp.chat = Nil
                 THEN Panicked(h, log, NilFuncFault)
                 ELSE LET log2 == Append(log, TrEvent("chat", h.passCallbacksCtx, errC))
                      IN  IF errC # Nil
                          THEN Done([h EXCEPT !.Err = errC,
                                              !.Flags = SetFlag(@, CIsChatTransactionError)],
                                    log2)
                          ELSE Done(h, log2)
            ELSE Done(h, log)
    IN  IF TestFlag(g.Flags, CFinishSessionTransaction)
        THEN IF comp.session = Nil
             THEN Panicked(g, <<>>, NilFuncFault)
             ELSE LET log1 == <<TrEvent("session", g.passCallbacksCtx, errS)>>
                  IN  IF errS # Nil
                      THEN Done([g EXCEPT !.Err = errS,
                                          !.Flags = SetFlag(@, CIsSessionTransactionError)],
                                log1)
                      ELSE chat(g, log1)
        ELSE chat(g, <<>>)

\* trFinish passing over a nil completor
trFinish_skipNil(g, comp, errS, errC) ==
    LET chat(h, log) ==
            IF TestFlag(h.Flags, CFinishChatTransaction)
            THEN IF comp.chat = Nil
                 THEN Done(h, log)
                 ELSE LET log2 == Append(log, TrEvent("chat", h.originalCtx, errC))
                      IN  IF errC # Nil
                          THEN Done([h EXCEPT !.Err = errC,
                                              !.Flags = SetFlag(@, CIsChatTransactionError)],
                                    log2)
                          ELSE Done(h, log2)
            ELSE Done(h, log)
    IN  IF TestFlag(g.Flags, CFinishSessionTransaction)
        THEN IF comp.session = Nil
             THEN chat(g, <<>>)
             ELSE LET log1 == <<TrEvent("session", g.originalCtx, errS)>>
                  IN  IF errS # Nil
                      THEN Done([g EXCEPT !.Err = errS,
                                          !.Flags = SetFlag(@, CIsSessionTransactionError)],
                                log1)
                      ELSE chat(g, log1)
        ELSE chat(g, <<>>)

\* trFinish recording a failed chat completor's error without its flag
trFinish_noFlag(g, comp, errS, errC) ==
    LET chat(h, log) ==
            IF TestFlag(h.Flags, CFinishChatTransaction)
            THEN IF comp.chat = Nil
                 THEN Panicked(h, log, NilFuncFault)
                 ELSE LET log2 == Append(log, TrEvent("chat", h.originalCtx, errC))
                      IN  IF errC # Nil
                          THEN Done([h EXCEPT !.Err = errC], log2)
                          ELSE Done(h, log2)
            ELSE Done(h, log)
    IN  IF TestFlag(g.Flags, CFinishSessionTransaction)
        THEN IF comp.session = Nil
             THEN Panicked(g, <<>>, NilFuncFault)
             ELSE LET log1 == <<TrEvent("session", g.originalCtx, errS)>>
                  IN  IF errS # Nil
                      THEN Done([g EXCEPT !.Err = errS,
                                          !.Flags = SetFlag(@, CIsSessionTransactionError)],
                                log1)
                      ELSE chat(g, log1)
        ELSE chat(g, <<>>)

\* trFinish doing nothing once an error is recorded
trFinish_onceOnly(g, comp, errS, errC) ==
    LET chat(h, log) ==
            IF TestFlag(h.Flags, CFinishChatTransaction)
            THEN IF comp.chat = Nil
                 THEN Panicked(h, log, NilFuncFault)
                 ELSE LET log2 == Append(log, TrEvent("chat", h.originalCtx, errC))
                      IN  IF errC # Nil
                          THEN Done([h EXCEPT !.Err = errC,
                                              !.Flags = SetFlag(@, CIsChatTransactionError)],
                                    log2)
                          ELSE Done(h, log2)
            ELSE Done(h, log)
    IN  IF g.Err # Nil
        THEN Done(g, <<>>)
        ELSE IF TestFlag(g.Flags, CFinishSessionTransaction)
        THEN IF comp.session = Nil
             THEN Panicked(g, <<>>, NilFuncFault)
             ELSE LET log1 == <<TrEvent("session", g.originalCtx, errS)>>
                  IN  IF errS # Nil
                      THEN Done([g EXCEPT !.Err = errS,
                                          !.Flags = SetFlag(@, CIsSessionTransactionError)],
                                log1)
                      ELSE chat(g, log1)
        ELSE chat(g, <<>>)

\* trFinish taking the chat flag off once the chat transaction is finished
trFinish_dropsFlag(g, comp, errS, errC) ==
    LET chat(h, log) ==
            IF TestFlag(h.Flags, CFinishChatTransaction)
            THEN IF comp.chat = Nil
                 THEN Panicked(h, log, NilFuncFault)
                 ELSE LET log2 == Append(log, TrEvent("chat", h.originalCtx, errC))
                      IN  IF errC # Nil
                          THEN Done([h EXCEPT !.Err = errC,
                                              !.Flags = SetFlag(@, CIsChatTransactionError)],
                                    log2)
                          ELSE Done([h EXCEPT !.Flags = @ \ {CFinishChatTransaction}], log2)
            ELSE Done(h, log)
    IN  IF TestFlag(g.Flags, CFinishSessionTransaction)
        THEN IF comp.session = Nil
             THEN Panicked(g, <<>>, NilFuncFault)
             ELSE LET log1 == <<TrEvent("session", g.originalCtx, errS)>>
                  IN  IF errS # Nil
                      THEN Done([g EXCEPT !.Err = errS,
                                          !.Flags = SetFlag(@, CIsSessionTransactionError)],
                                log1)
                      ELSE chat(g, log1)
        ELSE chat(g, <<>>)

\* func (f *Finisher) trFinish(); comp holds the two package-level completors,
\* errS / errC are what they return when called
trFinish(g, comp, errS, errC) ==
    LET chat(h, log) ==
            IF TestFlag(h.Flags, CFinishChatTransaction)
            THEN IF comp.chat = Nil
                 THEN Panicked(h, log, NilFuncFault)
                 ELSE LET log2 == Append(log, TrEvent("chat", h.originalCtx, errC))
                      IN  IF errC # Nil
                          THEN Done([h EXCEPT !.Err = errC,
                                              !.Flags = SetFlag(@, CIsChatTransactionError)],
                                    log2)
                          ELSE Done(h, log2)
            ELSE Done(h, log)
    IN  IF TestFlag(g.Flags, CFinishSessionTransaction)
        THEN IF comp.session = Nil
             THEN Panicked(g, <<>>, NilFuncFault)
             ELSE LET log1 == <<TrEvent("session", g.originalCtx, errS)>>
                  IN  IF errS # Nil
                      THEN Done([g EXCEPT !.Err = errS,
                                          !.Flags = SetFlag(@, CIsSessionTransactionError)],
                                log1)
                      ELSE chat(g, log1)
        ELSE chat(g, <<>>)

\* Call finishing the transactions although a callback's panic left the loop
Call_finishAfterPanic(g, comp, behs, errS, errC) ==
    LET c == RangeCallbacks(g, g.callbacks, 1, behs)
        t == trFinish(c.f, comp, errS, errC)
    IN  [t EXCEPT !.log = c.log \o @, !.escaped = c.escaped \/ @,
                  !.fault = IF c.escaped THEN c.fault ELSE @]

\* Call finishing the transactions before it calls the callbacks
Call_finishFirst(g, comp, behs, errS, errC) ==
    LET t == trFinish(g, comp, errS, errC)
    IN  IF t.escaped
        THEN t
        ELSE LET c == RangeCallbacks(t.f, g.callbacks, 1, behs)
             IN  [c EXCEPT !.log = t.log \o @]

\* func (f *Finisher) Call()
Call(g, comp, behs, errS, errC) ==
    LET finish(c) ==
            IF c.escaped
            THEN c
            ELSE [trFinish(c.f, comp, errS, errC) EXCEPT !.log = c.log \o @]
    IN  finish(RangeCallbacks(g, g.callbacks, 1, behs))

\* func MakeFinisher(flags, cbs, originalCtx, pass2callbacksCtx) *Finisher:
\* the composite literal names Flags, originalCtx and passCallbacksCtx only,
\* every other field is its zero value
MakeFinisher(flags, cbs, originalCtx, pass2callbacksCtx) ==
    [Flags |-> flags,
     originalCtx |-> originalCtx,
     passCallbacksCtx |-> pass2callbacksCtx,
     sentMsg |-> Nil,
     sentErr |-> Nil,
     callbacks |-> <<>>,
     RecoveredPanics |-> <<>>,
     Err |-> Nil]

\* MakeSuccess leaving the sending error in place
MakeSuccess_keepErr(g, sentMsg) == [g EXCEPT !.sentMsg = sentMsg]

\* func (f *Finisher) MakeSuccess(sentMsg unsafe.Pointer) *Finisher
MakeSuccess(g, sentMsg) == [g EXCEPT !.sentMsg = sentMsg, !.sentErr = Nil]

\* func (f *Finisher) MakeError(err error) *Finisher
MakeError(g, err) == [g EXCEPT !.sentMsg = Nil, !.sentErr = err]

\* func InitCompletors(cSessTr, cChatTr func(ctx unsafe.Pointer) error)
InitCompletors(cSessTr, cChatTr) == [session |-> cSessTr, chat |-> cChatTr]

----------------------------------------------------------------------------
(* The state machine. *)

ArgSets == [flags : SUBSET AllFlags, cbs : CbLists,
            originalCtx : OrigCtxs, pass2callbacksCtx : PassCtxs]

NoArgs == [flags |-> {}, cbs |-> <<>>, originalCtx |-> Nil, pass2callbacksCtx |-> Nil]

\* what the last operation was: its name, its arguments, the engine before it,
\* the calls it made and whether a panic left it
Hist(op, arg, args, pre, r) ==
    [op |-> op, arg |-> arg, args |-> args, pre |-> pre, log |-> r.log,
     escaped |-> r.escaped, fault |-> r.fault]

\* The engine the behaviour follows, right after it is made: either as
\* MakeFinisher(a.flags, a.cbs, a.originalCtx, a.pass2callbacksCtx) returns it,
\* or a Finisher of package view with the same fields and a.cbs in its
\* callbacks field.  The completors are the nil package-level variables.
Init ==
    /\ \E a \in ArgSets :
        LET made == MakeFinisher(a.flags, a.cbs, a.originalCtx, a.pass2callbacksCtx)
        IN  \/ /\ f = made
               /\ hist = Hist("MakeFinisher", Nil, a, f, Done(f, <<>>))
            \/ /\ f = [made EXCEPT !.callbacks = a.cbs]
               /\ hist = Hist("literal", Nil, a, f, Done(f, <<>>))
    /\ completors = [session |-> Nil, chat |-> Nil]
    /\ nCalls = 0
    /\ ctorFlags = f.Flags
    /\ eng = <<>>
    /\ sched = FALSE

DoMakeSuccess ==
    \E m \in Msgs \cup {Nil} :
        /\ f' = MakeSuccess(f, m)
        /\ hist' = Hist("MakeSuccess", m, NoArgs, f, Done(f', <<>>))
        /\ UNCHANGED <<completors, nCalls, ctorFlags>>
        /\ UNCHANGED parVars

DoMakeError ==
    \E e \in SendErrs \cup {Nil} :
        /\ f' = MakeError(f, e)
        /\ hist' = Hist("MakeError", e, NoArgs, f, Done(f', <<>>))
        /\ UNCHANGED <<completors, nCalls, ctorFlags>>
        /\ UNCHANGED parVars

DoInitCompletors ==
    \E s \in {Nil, Fn}, c \in {Nil, Fn} :
        /\ completors' = InitCompletors(s, c)
        /\ hist' = Hist("InitCompletors", Nil, NoArgs, f, Done(f, <<>>))
        /\ UNCHANGED <<f, nCalls, ctorFlags>>
        /\ UNCHANGED parVars

\* The inputs of one Call: what each callback does and what each completor
\* returns.  A callback that is not called (no outcome is set) and a completor
\* that is not called (its flag is not set, or it is nil) have nothing to
\* choose, they stand as returning nil.
CallbackInputs(g) ==
    [1..Len(g.callbacks) ->
        IF g.sentMsg # Nil \/ g.sentErr # Nil THEN Behaviours ELSE {Returns}]

SessionInputs(g, comp) ==
    IF TestFlag(g.Flags, CFinishSessionTransaction) /\ comp.session # Nil
    THEN SessionErrs \cup {Nil}
    ELSE {Nil}

ChatInputs(g, comp) ==
    IF TestFlag(g.Flags, CFinishChatTransaction) /\ comp.chat # Nil
    THEN ChatErrs \cup {Nil}
    ELSE {Nil}

DoCall ==
    /\ nCalls < MaxCalls
    /\ \E behs \in CallbackInputs(f),
          errS \in SessionInputs(f, completors), errC \in ChatInputs(f, completors) :
        \E r \in {Call(f, completors, behs, errS, errC)} :
            /\ f' = r.f
            /\ hist' = Hist("Call", Nil, NoArgs, f, r)
    /\ nCalls' = nCalls + 1
    /\ UNCHANGED <<completors, ctorFlags>>
    /\ UNCHANGED parVars

DoTrSessionError ==
    /\ hist' = Hist("TrSessionError", TrSessionError(f), NoArgs, f, Done(f, <<>>))
    /\ UNCHANGED <<f, completors, nCalls, ctorFlags>>
    /\ UNCHANGED parVars

DoTrChatError ==
    /\ hist' = Hist("TrChatError", TrChatError(f), NoArgs, f, Done(f, <<>>))
    /\ UNCHANGED <<f, completors, nCalls, ctorFlags>>
    /\ UNCHANGED parVars

Next ==
    \/ DoMakeSuccess
    \/ DoMakeError
    \/ DoInitCompletors
    \/ DoTrSessionError
    \/ DoTrChatError
    \/ DoCall

Spec == Init /\ [][Next]_vars

----------------------------------------------------------------------------
(* Call on two engine instances, each in a goroutine of its own.  A step is
   what one goroutine does between two points where the other may run: one
   turn of the loop of Call (one invoke), the session stage of trFinish, the
   chat stage of trFinish.  eng[e] is what goroutine e owns: its engine f,
   the position pc / i it has reached in Call, and, for the claims, the
   engine f0 it started from, the calls it has made and the values the
   callbacks and completors gave it.  completors is the package-level state
   both goroutines read.  sched tells whether a step was ever taken while
   the other goroutine was in the middle of its Call. *)

Engines == {1, 2}
Other(e) == 3 - e

\* the callbacks of the two engines: MaxCbs of them for the first, one for
\* the second
ParCbs(e) == IF e = 1 THEN SubSeq(CbPtrs, 1, MaxCbs) ELSE SubSeq(CbPtrs, 1, 1)

\* an engine literal with its callbacks, made a success (first engine) or an
\* error (second engine) finisher
ParEngine(e, flags) ==
    LET g == [MakeFinisher(flags, <<>>, "ctx", "extCtx") EXCEPT !.callbacks = ParCbs(e)]
    IN  IF e = 1 THEN MakeSuccess(g, "msg") ELSE MakeError(g, "sendErr")

\* goroutine e about to enter Call on g
Entering(g) ==
    [f |-> g, f0 |-> g, pc |-> "range", i |-> 1, log |-> <<>>, behs |-> <<>>,
     errS |-> Nil, errC |-> Nil, fault |-> Nil]

Started(s) == s.i > 1 \/ s.pc # "range"
Finished(s) == s.pc \in {"returned", "panicked"}
Midway(s) == Started(s) /\ ~Finished(s)

\* one turn of the loop of Call whose recovered panic lands in the
\* accumulator of every engine
ParInvokeStep_sharedPanics(es, e, b) ==
    LET s == es[e]
        r == invoke(s.f, s.i, s.f.callbacks[s.i], b)
        o == Other(e)
    IN  [es EXCEPT ![e] = [s EXCEPT !.f = r.f,
                                    !.log = @ \o r.log,
                                    !.behs = Append(@, b),
                                    !.i = @ + 1,
                                    !.pc = IF r.escaped THEN "panicked" ELSE @,
                                    !.fault = r.fault],
                   ![o] = [@ EXCEPT !.f.RecoveredPanics =
                               @ \o SubSeq(r.f.RecoveredPanics,
                                           Len(s.f.RecoveredPanics) + 1,
                                           Len(r.f.RecoveredPanics))]]

\* one turn of the loop of Call in goroutine e: f.invoke(cb) for the callback
\* at position i; a panic that leaves invoke ends the Call of this goroutine
ParInvokeStep(es, e, b) ==
    LET s == es[e]
        r == invoke(s.f, s.i, s.f.callbacks[s.i], b)
    IN  [es EXCEPT ![e] = [s EXCEPT !.f = r.f,
                                    !.log = @ \o r.log,
                                    !.behs = Append(@, b),
                                    !.i = @ + 1,
                                    !.pc = IF r.escaped THEN "panicked" ELSE @,
                                    !.fault = r.fault]]

\* the session stage of trFinish in goroutine e, entered when the loop of Call
\* is over; errS is what the session completor returns
ParSessionStep(es, comp, e, errS) ==
    LET s == es[e]
        g == s.f
    IN  [es EXCEPT ![e] =
            IF TestFlag(g.Flags, CFinishSessionTransaction)
            THEN IF comp.session = Nil
                 THEN [s EXCEPT !.pc = "panicked", !.fault = NilFuncFault]
                 ELSE LET log1 == Append(s.log, TrEvent("session", g.originalCtx, errS))
                      IN  IF errS # Nil
                          THEN [s EXCEPT !.f = [g EXCEPT !.Err = errS,
                                                         !.Flags = SetFlag(@, CIsSessionTransactionError)],
                                         !.log = log1, !.errS = errS, !.pc = "returned"]
                          ELSE [s EXCEPT !.log = log1, !.pc = "chat"]
            ELSE [s EXCEPT !.pc = "chat"]]

\* the chat stage of trFinish in goroutine e; errC is what the chat completor
\* returns
ParChatStep(es, comp, e, errC) ==
    LET s == es[e]
        g == s.f
    IN  [es EXCEPT ![e] =
            IF TestFlag(g.Flags, CFinishChatTransaction)
            THEN IF comp.chat = Nil
                 THEN [s EXCEPT !.pc = "panicked", !.fault = NilFuncFault]
                 ELSE LET log2 == Append(s.log, TrEvent("chat", g.originalCtx, errC))
                      IN  IF errC # Nil
                          THEN [s EXCEPT !.f = [g EXCEPT !.Err = errC,
                                                         !.Flags = SetFlag(@, CIsChatTransactionError)],
                                         !.log = log2, !.errC = errC, !.pc = "returned"]
                          ELSE [s EXCEPT !.log = log2, !.pc = "returned"]
            ELSE [s EXCEPT !.pc = "returned"]]

\* InitCompletors has registered both completors; two engines, made without
\* failure flags, are about to be called
InitPar ==
    /\ completors = InitCompletors(Fn, Fn)
    /\ \E fl1 \in SUBSET (AllFlags \ {CIsSessionTransactionError, CIsChatTransactionError}),
          fl2 \in SUBSET (AllFlags \ {CIsSessionTransactionError, CIsChatTransactionError}) :
           eng = [e \in Engines |-> Entering(ParEngine(e, IF e = 1 THEN fl1 ELSE fl2))]
    /\ sched = FALSE
    /\ f = MakeFinisher({}, <<>>, "ctx", "extCtx")
    /\ hist = Hist("none", Nil, NoArgs, f, Done(f, <<>>))
    /\ nCalls = 0
    /\ ctorFlags = {}

\* the variables of the specification of one engine, which the specification
\* of two engines leaves alone, but for completors, which it only reads
seqVars == <<f, completors, hist, nCalls, ctorFlags>>

Overlap(e) == sched \/ Midway(eng[Other(e)])

ParInvoke(e) ==
    /\ eng[e].pc = "range"
    /\ eng[e].i <= Len(eng[e].f.callbacks)
    /\ \E b \in Behaviours :
           eng' = ParInvokeStep(eng, e, b)
    /\ sched' = Overlap(e)
    /\ UNCHANGED seqVars

ParSession(e) ==
    /\ eng[e].pc = "range"
    /\ eng[e].i > Len(eng[e].f.callbacks)
    /\ \E errS \in SessionInputs(eng[e].f, completors) :
           eng' = ParSessionStep(eng, completors, e, errS)
    /\ sched' = Overlap(e)
    /\ UNCHANGED seqVars

ParChat(e) ==
    /\ eng[e].pc = "chat"
    /\ \E errC \in ChatInputs(eng[e].f, completors) :
           eng' = ParChatStep(eng, completors, e, errC)
    /\ sched' = Overlap(e)
    /\ UNCHANGED seqVars

NextPar ==
    \E e \in Engines :
        \/ ParInvoke(e)
        \/ ParSession(e)
        \/ ParChat(e)

SpecPar == InitPar /\ [][NextPar]_vars

----------------------------------------------------------------------------
(* Properties of Call, the constructor, the mutators and the accessors. *)

Called == hist.op = "Call"
Pre == hist.pre
Guarded == TestFlag(Pre.Flags, CEnablePanicGuard)
Marked(g) == g.sentMsg # Nil \/ g.sentErr # Nil

IsCb(e) == e.kind = "cb"
IsTr(e) == e.kind \in {"session", "chat"}
CbEvents == SelectSeq(hist.log, IsCb)
Positions == 1..Len(hist.log)
Crashed == \E i \in Positions : IsCb(hist.log[i]) /\ hist.log[i].panics

\* the values the crashing callbacks of a log panicked with, in order
RECURSIVE CrashValues(_)
CrashValues(log) ==
    IF log = <<>>
    THEN <<>>
    ELSE LET e == Head(log)
         IN  IF IsCb(e) /\ e.panics
             THEN <<e.payload>> \o CrashValues(Tail(log))
             ELSE CrashValues(Tail(log))

\* C1: one Call on a marked engine calls every callback of the list exactly
\* once, in list order, when no callback panics or the panic guard is enabled.
C1_CallbacksInListOrder ==
    (Called /\ Marked(Pre) /\ (Guarded \/ ~Crashed))
        => /\ Len(CbEvents) = Len(Pre.callbacks)
           /\ \A i \in 1..Len(CbEvents) :
                CbEvents[i].idx = i /\ CbEvents[i].cb = Pre.callbacks[i]

\* a guarded Call on a list of two or more callbacks, one of which panicked
C1_Witness ==
    /\ Called /\ Marked(Pre) /\ Guarded /\ Crashed
    /\ Len(Pre.callbacks) >= 2
    /\ Len(CbEvents) = Len(Pre.callbacks)

\* C2: the engine MakeFinisher(flags, cbs, originalCtx, activeCtx) returns holds
\* the given flags, the given callback list, the given two contexts, no
\* outcome, no recovered panics and a nil Err.
C2_ConstructorKeepsArguments ==
    hist.op = "MakeFinisher"
        => /\ f.Flags = hist.args.flags
           /\ f.callbacks = hist.args.cbs
           /\ f.originalCtx = hist.args.originalCtx
           /\ f.passCallbacksCtx = hist.args.pass2callbacksCtx
           /\ f.sentMsg = Nil /\ f.sentErr = Nil
           /\ f.RecoveredPanics = <<>>
           /\ f.Err = Nil

\* C3: every callback Call calls on a success finisher gets the callbacks'
\* context and the sent message and no error; on an error finisher it gets the
\* callbacks' context and the sending error and no message.
C3_CallbackArguments ==
    Called => \A i \in 1..Len(CbEvents) :
        LET e == CbEvents[i]
        IN  /\ e.ctx = Pre.passCallbacksCtx
            /\ (Pre.sentMsg # Nil /\ Pre.sentErr = Nil)
                   => (e.msg = Pre.sentMsg /\ e.err = Nil)
            /\ (Pre.sentErr # Nil /\ Pre.sentMsg = Nil)
                   => (e.err = Pre.sentErr /\ e.msg = Nil)

\* a Call that called two callbacks of a success finisher
C3_Witness ==
    /\ Called /\ Pre.sentMsg # Nil
    /\ Len(CbEvents) >= 2
    /\ CbEvents[1].msg = Pre.sentMsg

\* C4: with the panic guard enabled a panicking callback stops neither the later
\* callbacks nor the transaction finishing, and after Call RecoveredPanics has
\* grown by exactly the values the crashing callbacks panicked with, in order.
C4_GuardRecordsEveryCrash ==
    (Called /\ Guarded)
        => /\ Marked(Pre) => Len(CbEvents) = Len(Pre.callbacks)
           /\ hist.escaped => hist.fault = NilFuncFault
           /\ f.RecoveredPanics
                = Pre.RecoveredPanics \o CrashValues(hist.log)

\* C5: without the panic guard a panicking callback ends Call at once: the
\* panic leaves Call with the callback's value, no later callback and no
\* completor is called, and RecoveredPanics, Err and the flags stay as they were.
C5_UnguardedCrashAborts ==
    (Called /\ ~Guarded)
        => \A i \in Positions :
            (IsCb(hist.log[i]) /\ hist.log[i].panics)
                => /\ hist.escaped
                   /\ hist.fault = hist.log[i].payload
                   /\ i = Len(hist.log)
                   /\ f.RecoveredPanics = Pre.RecoveredPanics
                   /\ f.Err = Pre.Err
                   /\ f.Flags = Pre.Flags

\* the first of two callbacks panicked in an unguarded Call that had both
\* transactions to finish and both completors registered
C5_Witness ==
    /\ Called /\ ~Guarded /\ hist.escaped
    /\ Len(Pre.callbacks) >= 2
    /\ Len(hist.log) = 1 /\ hist.log[1].panics
    /\ TestFlag(Pre.Flags, CFinishSessionTransaction)
    /\ TestFlag(Pre.Flags, CFinishChatTransaction)
    /\ completors.session # Nil /\ completors.chat # Nil

SessionFailedWith(e) ==
    /\ Called
    /\ TestFlag(Pre.Flags, CFinishSessionTransaction)
    /\ e # Nil
    /\ \E i \in Positions : hist.log[i].kind = "session" /\ hist.log[i].err = e

ChatFailedWith(e) ==
    /\ Called
    /\ TestFlag(Pre.Flags, CFinishChatTransaction)
    /\ e # Nil
    /\ \/ ~TestFlag(Pre.Flags, CFinishSessionTransaction)
       \/ \E i \in Positions : hist.log[i].kind = "session" /\ hist.log[i].err = Nil
    /\ \E i \in Positions : hist.log[i].kind = "chat" /\ hist.log[i].err = e

NoChatCall == \A i \in Positions : hist.log[i].kind # "chat"

AfterMutator == hist.op \in {"MakeSuccess", "MakeError"}

\* C8 as stated: after MakeSuccess / MakeError exactly one of sentMsg and
\* sentErr is populated, the one the last mutator set.
C8_AsStated ==
    AfterMutator
        => /\ (f.sentMsg # Nil) # (f.sentErr # Nil)
           /\ hist.op = "MakeSuccess" => (f.sentMsg = hist.arg /\ f.sentMsg # Nil)
           /\ hist.op = "MakeError" => (f.sentErr = hist.arg /\ f.sentErr # Nil)

\* C8: sentMsg and sentErr are never both populated; after MakeSuccess(m)
\* sentMsg is m and sentErr is nil, after MakeError(e) sentErr is e and sentMsg
\* is nil: exactly one is populated, the one the last mutator set, when its
\* argument was not nil, and none when it was nil.
C8_LastMutatorWins ==
    /\ ~(f.sentMsg # Nil /\ f.sentErr # Nil)
    /\ hist.op = "MakeSuccess" => (f.sentMsg = hist.arg /\ f.sentErr = Nil)
    /\ hist.op = "MakeError" => (f.sentErr = hist.arg /\ f.sentMsg = Nil)

\* MakeSuccess with a message on a finisher that MakeError had marked
C8_Witness ==
    /\ hist.op = "MakeSuccess" /\ hist.arg # Nil
    /\ Pre.sentErr # Nil
    /\ f.sentMsg = hist.arg /\ f.sentErr = Nil

\* C9: in one Call no completor is called before the callbacks are through (a
\* completor call follows every callback call, and on a marked engine it
\* follows a call of every callback of the list), and the session completor's
\* call precedes the chat completor's.
C9_PhasesInOrder ==
    Called
        => /\ \A i, j \in Positions :
                (i < j) => /\ ~(IsTr(hist.log[i]) /\ IsCb(hist.log[j]))
                           /\ ~(hist.log[i].kind = "chat" /\ hist.log[j].kind = "session")
           /\ (Marked(Pre) /\ \E i \in Positions : IsTr(hist.log[i]))
                => Len(CbEvents) = Len(Pre.callbacks)

\* a Call that called two callbacks, then the session and the chat completor
C9_Witness ==
    /\ Called
    /\ Len(CbEvents) >= 2
    /\ Len(hist.log) = Len(CbEvents) + 2
    /\ hist.log[Len(hist.log) - 1].kind = "session"
    /\ hist.log[Len(hist.log)].kind = "chat"

\* C10: every completor call gets the original context and every callback call
\* gets the callbacks' context, also when the two differ.
C10_ContextsKeptApart ==
    Called => \A i \in Positions :
        LET e == hist.log[i]
        IN  /\ IsTr(e) => e.ctx = Pre.originalCtx
            /\ IsCb(e) => e.ctx = Pre.passCallbacksCtx
            /\ Pre.originalCtx # Pre.passCallbacksCtx
                   => /\ IsTr(e) => e.ctx # Pre.passCallbacksCtx
                      /\ IsCb(e) => e.ctx # Pre.originalCtx

\* a Call with different contexts that called a callback and a completor
C10_Witness ==
    /\ Called
    /\ Pre.originalCtx # Pre.passCallbacksCtx
    /\ \E i \in Positions : IsCb(hist.log[i])
    /\ \E i \in Positions : IsTr(hist.log[i]) /\ hist.log[i].ctx = Pre.originalCtx

----------------------------------------------------------------------------
(* Properties of the transaction finishing, of repeated Calls and of what  *)
(* Call leaves alone.                                                      *)

FailureFlags == {CIsSessionTransactionError, CIsChatTransactionError}

Count(kind) == Cardinality({i \in Positions : hist.log[i].kind = kind})
SessionReturned(e) == \E i \in Positions : hist.log[i].kind = "session" /\ hist.log[i].err = e

\* a callback's panic left the Call (no panic guard)
CallbackPanicEscaped == ~Guarded /\ Crashed

\* the Call got as far as calling the chat completor, if it is to be called
ChatStageReached ==
    /\ ~CallbackPanicEscaped
    /\ \/ ~TestFlag(Pre.Flags, CFinishSessionTransaction)
       \/ SessionReturned(Nil)

\* C12: a Call that reaches a transaction it is to finish while the completor
\* of that transaction is nil ends in a fault raised there: it does not
\* return, it calls no completor from there on, and it leaves Err and the flags
\* as they were.
C12_NilCompletorFaults ==
    Called
        => /\ ( /\ ~CallbackPanicEscaped
                /\ TestFlag(Pre.Flags, CFinishSessionTransaction)
                /\ completors.session = Nil )
              => /\ hist.escaped /\ hist.fault = NilFuncFault
                 /\ Count("session") = 0 /\ Count("chat") = 0
                 /\ f.Err = Pre.Err /\ f.Flags = Pre.Flags
           /\ ( /\ ChatStageReached
                /\ TestFlag(Pre.Flags, CFinishChatTransaction)
                /\ completors.chat = Nil )
              => /\ hist.escaped /\ hist.fault = NilFuncFault
                 /\ Count("chat") = 0
                 /\ f.Err = Pre.Err /\ f.Flags = Pre.Flags

\* the session completor returned nil and the chat completor, to be called
\* next, is nil
C12_Witness ==
    /\ Called /\ hist.escaped /\ hist.fault = NilFuncFault
    /\ SessionReturned(Nil)
    /\ TestFlag(Pre.Flags, CFinishChatTransaction) /\ completors.chat = Nil
    /\ Len(CbEvents) >= 1

\* C13 as stated: in a Call no unguarded callback panic ends, the session
\* completor is called once if CFinishSessionTransaction is set and never
\* otherwise, the chat completor once if CFinishChatTransaction is set and the
\* session transaction was not to be finished or its completor returned nil,
\* and never otherwise.
C13_AsStated ==
    (Called /\ ~CallbackPanicEscaped)
        => /\ Count("session")
                = IF TestFlag(Pre.Flags, CFinishSessionTransaction) THEN 1 ELSE 0
           /\ Count("chat")
                = IF /\ TestFlag(Pre.Flags, CFinishChatTransaction)
                     /\ \/ ~TestFlag(Pre.Flags, CFinishSessionTransaction)
                        \/ SessionReturned(Nil)
                  THEN 1 ELSE 0

\* what a Call that gets to trFinish calls: the session completor once if its
\* flag is set and it is not nil, the chat completor once if its flag is set,
\* it is not nil, and the session transaction was not to be finished or its
\* completor returned nil; no other completor call
CompletorsCalledAsSelected ==
    /\ Count("session")
         = IF /\ TestFlag(Pre.Flags, CFinishSessionTransaction)
              /\ completors.session # Nil
           THEN 1 ELSE 0
    /\ Count("chat")
         = IF /\ TestFlag(Pre.Flags, CFinishChatTransaction)
              /\ completors.chat # Nil
              /\ \/ ~TestFlag(Pre.Flags, CFinishSessionTransaction)
                 \/ SessionReturned(Nil)
           THEN 1 ELSE 0

\* C13: in a Call no unguarded callback panic ends, each completor is called as
\* C13 states provided it is registered; a completor that is nil is not called
\* (the Call faults there, C12), and a failing completor is not called again.
C13_CompletorCallCounts ==
    (Called /\ ~CallbackPanicEscaped) => CompletorsCalledAsSelected

\* a Call that called a callback and then each completor once
C13_Witness ==
    /\ Called /\ ~CallbackPanicEscaped
    /\ Count("session") = 1 /\ Count("chat") = 1
    /\ Len(CbEvents) >= 1

\* C14: a second Call on the engine calls every callback again, in list order,
\* and calls again the completors its flags and the session result of this run
\* select; what the first run recorded neither stops it nor is reset by it:
\* RecoveredPanics only grows, the flags only grow, a recorded Err is replaced
\* by an error of this run or kept.
C14_SecondCallRunsAgain ==
    (Called /\ nCalls >= 2)
        => /\ (Marked(Pre) /\ (Guarded \/ ~Crashed))
                => /\ Len(CbEvents) = Len(Pre.callbacks)
                   /\ \A i \in 1..Len(CbEvents) :
                        CbEvents[i].idx = i /\ CbEvents[i].cb = Pre.callbacks[i]
           /\ ~CallbackPanicEscaped => CompletorsCalledAsSelected
           /\ Len(f.RecoveredPanics) >= Len(Pre.RecoveredPanics)
           /\ SubSeq(f.RecoveredPanics, 1, Len(Pre.RecoveredPanics)) = Pre.RecoveredPanics
           /\ Pre.Flags \subseteq f.Flags
           /\ \/ f.Err = Pre.Err
              \/ \E i \in Positions : IsTr(hist.log[i]) /\ hist.log[i].err = f.Err

\* a second Call, after a first one that recorded a panic and a session error,
\* called the callbacks and the session completor again
C14_Witness ==
    /\ Called /\ nCalls >= 2
    /\ Pre.RecoveredPanics # <<>>
    /\ Pre.Err # Nil /\ TestFlag(Pre.Flags, CIsSessionTransactionError)
    /\ Len(CbEvents) >= 2
    /\ Count("session") = 1

CleanlyMade == ctorFlags \cap FailureFlags = {}

\* C15: on an engine made without the two error flags, Err is not nil exactly
\* when one of the two error flags is set.
C15_ErrIffFailureFlag ==
    CleanlyMade => ((f.Err # Nil) <=> (f.Flags \cap FailureFlags # {}))

\* a Call on such an engine recorded a chat completor's error
C15_Witness ==
    /\ CleanlyMade /\ Called
    /\ f.Err # Nil /\ Pre.Err = Nil
    /\ TestFlag(f.Flags, CIsChatTransactionError)

OneFailureFlag ==
    /\ ~(TestFlag(f.Flags, CIsSessionTransactionError)
            /\ TestFlag(f.Flags, CIsChatTransactionError))
    /\ ~(TrSessionError(f) # Nil /\ TrChatError(f) # Nil)
    /\ TrSessionError(f) \in SessionErrs \cup {Nil}
    /\ TrChatError(f) \in ChatErrs \cup {Nil}

C17_UnmarkedCallsNoCallback ==
    (Called /\ ~Marked(Pre))
        => /\ CbEvents = <<>>
           /\ f.RecoveredPanics = Pre.RecoveredPanics
           /\ hist.escaped => hist.fault = NilFuncFault
           /\ CompletorsCalledAsSelected
           /\ \A e \in TrErrs :
                (SessionReturned(e) => (f.Err = e /\ TestFlag(f.Flags, CIsSessionTransactionError)))

\* a guarded Call on an unmarked engine with two callbacks that called both
\* completors
C17_Witness ==
    /\ Called /\ ~Marked(Pre) /\ Guarded
    /\ Len(Pre.callbacks) >= 2
    /\ Count("session") = 1 /\ Count("chat") = 1

PublicFlags == AllFlags \ FailureFlags

\* C18: a Call leaves sentMsg, sentErr, both contexts, the callback list, the
\* completors and the flags CEnablePanicGuard, CFinishSessionTransaction and
\* CFinishChatTransaction as they were; TrSessionError and TrChatError change
\* nothing of the engine or the completors.
C18_CallFrame ==
    [][ /\ hist'.op = "Call"
            => /\ f'.sentMsg = f.sentMsg /\ f'.sentErr = f.sentErr
               /\ f'.originalCtx = f.originalCtx
               /\ f'.passCallbacksCtx = f.passCallbacksCtx
               /\ f'.callbacks = f.callbacks
               /\ f'.Flags \cap PublicFlags = f.Flags \cap PublicFlags
               /\ completors' = completors
        /\ hist'.op \in {"TrSessionError", "TrChatError"}
            => (f' = f /\ completors' = completors) ]_vars

\* a Call that changed RecoveredPanics, Err and the flags
C18_Witness ==
    /\ Called /\ Marked(Pre)
    /\ f.RecoveredPanics # Pre.RecoveredPanics
    /\ f.Err # Pre.Err
    /\ f.Flags # Pre.Flags
    /\ Count("chat") = 1

----------------------------------------------------------------------------
(* Call on two engine instances at once (SpecPar). *)

\* what the callbacks of goroutine e did, with a plain return at the positions
\* its Call never reached
PadBehs(s) ==
    [k \in 1..Len(s.f0.callbacks) |-> IF k <= Len(s.behs) THEN s.behs[k] ELSE Returns]

\* the Call of goroutine e ended as a Call of its engine run alone ends, given
\* the same callbacks and completors' results: same engine (accumulator, Err,
\* flags), same calls with the same arguments in the same order, same panic
AsIfAlone(e) ==
    LET s == eng[e]
        r == Call(s.f0, completors, PadBehs(s), s.errS, s.errC)
    IN  /\ s.f = r.f
        /\ s.log = r.log
        /\ (s.pc = "panicked") = r.escaped
        /\ s.fault = r.fault

\* C11: with both completors registered beforehand, however the steps of Call
\* on two engines interleave, each Call ends with the accumulator, Err and
\* flags, and with the callbacks' arguments in the order, of that Call run
\* alone; and a step of one goroutine changes neither the other goroutine's
\* engine nor the registered completors
C11_InterleavedCallsAsIfAlone ==
    /\ [](\A e \in Engines : Finished(eng[e]) => AsIfAlone(e))
    /\ [][ /\ \A e \in Engines : eng'[e] # eng[e] => eng'[Other(e)] = eng[Other(e)]
           /\ completors' = completors ]_vars

\* both Calls are over, a step of one was taken in the middle of the other,
\* the first engine has recovered a panic and called two callbacks, the second
\* one has recorded a cleanup error
C11_Witness ==
    /\ DOMAIN eng = Engines
    /\ sched
    /\ \A e \in Engines : Finished(eng[e])
    /\ eng[1].f.RecoveredPanics # <<>>
    /\ Len(eng[1].log) >= 2
    /\ eng[2].f.Err # Nil
    /\ Len(eng[2].log) >= 2

====
